---- MODULE Spec2Model ----
(***************************************************************************)
(* RehabRiskAgent (src/project-code-group/2026-Khan-Liu-Peng-code/src/     *)
(* _init_.py): file location, table cleaning, the three metric             *)
(* evaluations and the PASS/FAIL verdict, as a state machine.              *)
(*                                                                         *)
(* Abstractions, all stated here once:                                     *)
(*  - CSV cells are text; numbers are decimal integers with an optional    *)
(*    leading minus sign (no fractions, no exponents).                     *)
(*  - Arithmetic on the parsed numbers is exact (rationals kept as         *)
(*    numerator/denominator); binary floating-point rounding error is not  *)
(*    modelled.  nan and inf are modelled as the code's numpy scalars      *)
(*    produce them (0/0 = nan, x/0 = inf for x > 0, comparisons with nan   *)
(*    are False).                                                          *)
(*  - A file whose text pandas.read_csv rejects (empty file, ragged rows,  *)
(*    binary junk) is the single content value Unparseable.                *)
(*  - The three header lines analyze() prints are not modelled; the one    *)
(*    line printed per metric is (variable out).                           *)
(***************************************************************************)
EXTENDS Integers, Sequences, FiniteSets, TLC

VARIABLES
    patient_id,   \* self.patient_id
    config,       \* self.config, a RiskConfig
    files,        \* the content of self.data_dir, in directory-listing order
    risks,        \* self.risks
    out,          \* the metric lines printed by the latest analyze() call
    verdict,      \* the value the latest get_result() call returned, "" before any
    calls,        \* number of analyze() calls made so far
    op,           \* the latest call: its name and arguments
    latest_file,  \* _load_and_clean: the file name selected at line 55, "" when none
    clean_df      \* _load_and_clean: the value returned

vars == <<patient_id, config, files, risks, out, verdict, calls, op, latest_file, clean_df>>

(***************************************************************************)
(* Bounds of the model.                                                    *)
(***************************************************************************)
MaxRows == 2      \* rows of a generated CSV file
MaxFiles == 2     \* files in a generated directory of the locator specification
MaxMtime == 2     \* modification times are 1..MaxMtime
MaxCalls == 2     \* analyze() calls in one behaviour

(***************************************************************************)
(* Strings.                                                                *)
(***************************************************************************)
Sub(s, i, n) == SubSeq(s, i, i + n - 1)

\* t occurs in s at position i.
At(s, i, t) == i >= 1 /\ i + Len(t) - 1 <= Len(s) /\ Sub(s, i, Len(t)) = t

Contains(s, t) == \E i \in 1..(Len(s) - Len(t) + 1) : At(s, i, t)

StartsWith(s, t) == At(s, 1, t)

EndsWith(s, t) == At(s, Len(s) - Len(t) + 1, t)

(***************************************************************************)
(* Cells of a DataFrame: text, a number, or NaN.                           *)
(***************************************************************************)
Str(s) == [k |-> "str", s |-> s, v |-> 0]

Num(n) == [k |-> "num", s |-> "", v |-> n]

NaN == [k |-> "nan", s |-> "", v |-> 0]

Digits == {"0", "1", "2", "3", "4", "5", "6", "7", "8", "9"}

DigitVal(c) ==
    CASE c = "0" -> 0 [] c = "1" -> 1 [] c = "2" -> 2 [] c = "3" -> 3 [] c = "4" -> 4
      [] c = "5" -> 5 [] c = "6" -> 6 [] c = "7" -> 7 [] c = "8" -> 8 [] c = "9" -> 9

\* The value of the decimal digits of s from position i on, given the value acc
\* of those before; -1 when s holds anything but digits.
RECURSIVE DigitsValue(_, _, _)
DigitsValue(s, i, acc) ==
    IF i > Len(s) THEN acc
    ELSE IF Sub(s, i, 1) \in Digits
         THEN DigitsValue(s, i + 1, 10 * acc + DigitVal(Sub(s, i, 1)))
         ELSE -1

\* The number a CSV field denotes, NaN when it denotes none: decimal digits,
\* with an optional leading minus sign.
ParseText(s) ==
    IF s = "" \/ s = "-" THEN NaN
    ELSE LET neg == Sub(s, 1, 1) = "-"
             n == DigitsValue(s, IF neg THEN 2 ELSE 1, 0)
         IN  IF n < 0 THEN NaN ELSE IF neg THEN Num(0 - n) ELSE Num(n)

\* pd.to_numeric(..., errors='coerce') on one cell.
to_numeric(c) == IF c.k = "str" THEN ParseText(c.s) ELSE c

(***************************************************************************)
(* Files and tables.                                                       *)
(***************************************************************************)
\* Optional[pd.DataFrame]: None.
None == [ok |-> FALSE, ncols |-> 0, rows |-> <<>>]

\* A file pandas.read_csv raises on.
Unparseable == [ok |-> FALSE, ncols |-> 0, rows |-> <<>>]

\* A CSV file of text fields, rectangular.
CsvFile(ncols, rows) == [ok |-> TRUE, ncols |-> ncols, rows |-> rows]

\* pd.read_csv(latest_file, header=None): column types are inferred, a column
\* all of whose fields are numbers or empty is numeric, any other column holds text;
\* an empty field is NaN in both; rows are labelled 1, 2, ... (the index).
NumericColumn(content, j) ==
    \A i \in 1..Len(content.rows) :
        content.rows[i][j] = "" \/ ParseText(content.rows[i][j]).k = "num"

TypedRows(content, numeric) ==
    [i \in 1..Len(content.rows) |->
        [idx |-> i,
         cells |-> [j \in 1..content.ncols |->
                      IF content.rows[i][j] = "" THEN NaN
                      ELSE IF j \in numeric THEN ParseText(content.rows[i][j])
                      ELSE Str(content.rows[i][j])]]]

read_csv(content) ==
    [ok |-> TRUE,
     ncols |-> content.ncols,
     rows |-> TypedRows(content, {j \in 1..content.ncols : NumericColumn(content, j)})]

(***************************************************************************)
(* _load_and_clean: the locator (lines 45-55).                             *)
(***************************************************************************)
\* glob.glob(data_dir / "*<patient_id>*<file_keyword>*.csv"), on one file name:
\* fnmatch matches the whole name, "*" matches any run of characters, and a
\* pattern starting with "*" matches no name starting with a dot.
GlobSpecific(name, pid, kw) ==
    /\ EndsWith(name, ".csv")
    /\ ~StartsWith(name, ".")
    /\ \E i \in 1..Len(name) :
          /\ At(name, i, pid)
          /\ \E j \in (i + Len(pid))..(Len(name) - 3 - Len(kw)) : At(name, j, kw)

\* glob.glob(data_dir / "*<file_keyword>*.csv"), on one file name.
GlobKeyword(name, kw) ==
    /\ EndsWith(name, ".csv")
    /\ ~StartsWith(name, ".")
    /\ \E j \in 1..(Len(name) - 3 - Len(kw)) : At(name, j, kw)

\* The files of the pattern in use: the patient-specific matches, or, when there
\* are none, the keyword-only matches; in directory-listing order.
FirstNonEmpty(specific, dir, kw) ==
    IF specific # <<>> THEN specific
    ELSE SelectSeq(dir, LAMBDA f : GlobKeyword(f.name, kw))

GlobFiles(dir, pid, kw) ==
    FirstNonEmpty(SelectSeq(dir, LAMBDA f : GlobSpecific(f.name, pid, kw)), dir, kw)

mtimeMin(fs) ==
    CHOOSE i \in 1..Len(fs) :
        /\ \A j \in 1..Len(fs) : fs[j].mtime >= fs[i].mtime
        /\ \A j \in 1..(i - 1) : fs[j].mtime > fs[i].mtime

\* max(files, key=lambda f: Path(f).stat().st_mtime): the first of the files
\* with the largest modification time.
mtimeMax(fs) ==
    CHOOSE i \in 1..Len(fs) :
        /\ \A j \in 1..Len(fs) : fs[j].mtime <= fs[i].mtime
        /\ \A j \in 1..(i - 1) : fs[j].mtime < fs[i].mtime

(***************************************************************************)
(* _load_and_clean: the cleaner (lines 57-66).                             *)
(***************************************************************************)
\* The cell of row r at the code's (0-based) column index c.
Cell(r, c) == r.cells[c + 1]

Coerce(df, c) ==
    [df EXCEPT !.rows = [i \in 1..Len(df.rows) |->
        [df.rows[i] EXCEPT !.cells[c + 1] = to_numeric(df.rows[i].cells[c + 1])]]]

\* df[df.iloc[:, c] > floor]: the rows whose cell is a number above floor (a
\* comparison with NaN is False), in order, with their index labels.
RowsAbove(df, c, floor) ==
    [df EXCEPT !.rows = SelectSeq(df.rows,
        LAMBDA r : Cell(r, c).k = "num" /\ Cell(r, c).v > floor)]

Rebase(df, c, floor) ==
    [df EXCEPT !.rows = [i \in 1..Len(df.rows) |->
        [df.rows[i] EXCEPT !.cells[c + 1] = Num(df.rows[i].cells[c + 1].v - floor)]]]

CleanStepInclusive(df, c) == RowsAbove(Coerce(df, c), c, 9)

CleanStepRebased(df, c) == Rebase(RowsAbove(Coerce(df, c), c, 10), c, 10)

\* Lines 62-64: coerce column c to numeric, keep the rows whose value is > 10.
CleanStep(df, c) == RowsAbove(Coerce(df, c), c, 10)

\* Lines 59-64, on the table read.
CleanTable(df, c) == IF df.ncols <= c THEN None ELSE CleanStep(df, c)

\* Lines 57-66: the try block on the selected file's content; read_csv raising
\* is caught at line 65.
CleanFile(content, c) == IF ~content.ok THEN None ELSE CleanTable(read_csv(content), c)

LoadFile(f, c) == [file |-> f.name, df |-> CleanFile(f.content, c)]

\* Lines 52-66, on the files globbed.
LoadLatest(fs, c) ==
    IF fs = <<>> THEN [file |-> "", df |-> None] ELSE LoadFile(fs[mtimeMax(fs)], c)

\* _load_and_clean(file_keyword, col_index): the file selected ("" when none) and
\* the value returned.
LoadAndClean(dir, pid, kw, c) == LoadLatest(GlobFiles(dir, pid, kw), c)

(***************************************************************************)
(* RiskConfig (lines 15-31).  SILENCE_RATIO_LIMIT is the one threshold     *)
(* that is not a whole number: it is kept as the fraction num/den.         *)
(***************************************************************************)
RiskConfig ==
    [BASELINE_WORKLOAD |-> 1400,
     EXERTION_TOLERANCE_PCT |-> 50,
     STABILITY_THRESHOLD_SD |-> 300,
     SILENCE_THRESHOLD |-> 100,
     SILENCE_RATIO_LIMIT |-> [num |-> 3, den |-> 10]]

\* The three sources analyze() loads, with the column each is cleaned on.
Sources ==
    <<[keyword |-> "speak", col_index |-> 2],
      [keyword |-> "bike_level1", col_index |-> 2],
      [keyword |-> "static_level1", col_index |-> 3]>>

Keywords == {Sources[k].keyword : k \in 1..3}

(***************************************************************************)
(* Floating-point values of the metrics: nan, +inf, a fraction num/den     *)
(* (den > 0), or the square root of a fraction num/den (num >= 0, den > 0).*)
(***************************************************************************)
nan == [k |-> "nan", num |-> 0, den |-> 1]

inf == [k |-> "inf", num |-> 1, den |-> 1]

Frac(n, d) == IF d > 0 THEN [k |-> "frac", num |-> n, den |-> d]
                       ELSE [k |-> "frac", num |-> 0 - n, den |-> 0 - d]

Sqrt(n, d) == [k |-> "sqrt", num |-> n, den |-> d]

Abs(n) == IF n < 0 THEN 0 - n ELSE n

RECURSIVE Sum(_)
Sum(xs) == IF xs = <<>> THEN 0 ELSE Head(xs) + Sum(Tail(xs))

RECURSIVE SumSq(_)
SumSq(xs) == IF xs = <<>> THEN 0 ELSE Head(xs) * Head(xs) + SumSq(Tail(xs))

\* The largest r in lo..hi with r * r <= n, given lo * lo <= n.
RECURSIVE ISqrtIn(_, _, _)
ISqrtIn(n, lo, hi) ==
    IF lo >= hi THEN lo
    ELSE LET mid == (lo + hi + 1) \div 2
         IN  IF mid * mid <= n THEN ISqrtIn(n, mid, hi) ELSE ISqrtIn(n, lo, mid - 1)

ISqrt(n) == ISqrtIn(n, 0, IF n < 46340 THEN n ELSE 46340)

\* a/d (a >= 0, d > 0) rounded to the nearest integer, a tie to the even one.
RoundHalfEven(a, d) ==
    LET q == a \div d
        r == a % d
    IN  IF 2 * r > d THEN q + 1
        ELSE IF 2 * r < d THEN q
        ELSE IF q % 2 = 0 THEN q ELSE q + 1

\* sqrt(a/d) (a >= 0, d > 0) rounded to the nearest integer, a tie to the even one.
RoundSqrt(a, d) ==
    LET t == ISqrt((4 * a) \div d)      \* floor(2 * sqrt(a/d))
    IN  IF t % 2 = 1 /\ t * t * d = 4 * a
        THEN (IF ((t - 1) \div 2) % 2 = 0 THEN (t - 1) \div 2 ELSE (t + 1) \div 2)
        ELSE (t + 1) \div 2

\* f"{x:.0f}" (digits = 0) and f"{x:.1f}" (digits = 1).
FormatFixed(x, digits) ==
    IF x.k = "nan" THEN "nan"
    ELSE IF x.k = "inf" THEN "inf"
    ELSE LET scale == IF digits = 0 THEN 1 ELSE 10
             q == IF x.k = "frac" THEN RoundHalfEven(Abs(x.num) * scale, x.den)
                                  ELSE RoundSqrt(x.num * scale * scale, x.den)
             sign == IF x.num < 0 THEN "-" ELSE ""
         IN  IF digits = 0 THEN sign \o ToString(q)
             ELSE sign \o ToString(q \div 10) \o "." \o ToString(q % 10)

\* f"{x:.1%}" of a fraction or nan.
FormatPercent(x) ==
    IF x.k = "frac" THEN FormatFixed(Frac(x.num * 100, x.den), 1) \o "%"
    ELSE FormatFixed(x, 1) \o "%"

\* x > n/d (d > 0) for x a fraction, inf or nan: a comparison with nan is False.
GreaterThan(x, n, d) ==
    \/ x.k = "inf"
    \/ x.k = "frac" /\ x.num * d > n * x.den
    \/ x.k = "sqrt" /\ (n < 0 \/ x.num * d * d > n * n * x.den)

\* Python's max(a, b) on two standard deviations: b if b > a, else a.
max(a, b) ==
    IF a.k = "sqrt" /\ b.k = "sqrt" /\ b.num * a.den > a.num * b.den THEN b ELSE a

CellValues(cs) == [i \in 1..Len(cs) |-> cs[i].v]

\* The numeric values of column c (0-based) of a table, NaN and text cells skipped.
Values(df, c) ==
    CellValues(SelectSeq([i \in 1..Len(df.rows) |-> Cell(df.rows[i], c)],
                         LAMBDA x : x.k = "num"))

\* Series.mean(): nan on no value.
mean(xs) == IF xs = <<>> THEN nan ELSE Frac(Sum(xs), Len(xs))

\* Series.std(): the sample standard deviation (ddof = 1), nan on fewer than two values.
std(xs) ==
    IF Len(xs) < 2 THEN nan
    ELSE Sqrt(Len(xs) * SumSq(xs) - Sum(xs) * Sum(xs), Len(xs) * (Len(xs) - 1))

(***************************************************************************)
(* analyze (lines 68-106): each evaluation yields the labels it appends    *)
(* to self.risks and the line it prints.                                   *)
(***************************************************************************)
GapRatioInverted(xs, n, threshold) ==
    IF n = 0 THEN nan
    ELSE Frac(Cardinality({i \in 1..Len(xs) : Abs(xs[i]) >= threshold}), n)

\* Line 76: (df_speak.iloc[:, 2].abs() < SILENCE_THRESHOLD).sum() / len(df_speak),
\* xs the values of column 2 and n the number of rows.
GapRatio(xs, n, threshold) ==
    IF n = 0 THEN nan
    ELSE Frac(Cardinality({i \in 1..Len(xs) : Abs(xs[i]) < threshold}), n)

\* Lines 77-79.
RespiratoryReport(gap_ratio, cfg) ==
    [labels |-> IF GreaterThan(gap_ratio, cfg.SILENCE_RATIO_LIMIT.num,
                               cfg.SILENCE_RATIO_LIMIT.den)
                THEN <<"Respiratory Risk (" \o FormatPercent(gap_ratio) \o ")">>
                ELSE <<>>,
     line |-> "   Speak Pause Ratio: " \o FormatPercent(gap_ratio)]

\* Lines 75-81.
Respiratory(df_speak, cfg) ==
    IF ~df_speak.ok
    THEN [labels |-> <<>>, line |-> "   Warning: Speak file not found or invalid format"]
    ELSE RespiratoryReport(
             GapRatio(Values(df_speak, 2), Len(df_speak.rows), cfg.SILENCE_THRESHOLD), cfg)

\* Line 87: ((avg_load - BASELINE_WORKLOAD) / BASELINE_WORKLOAD) * 100.  A
\* division by 0.0 of the numpy scalar gives inf (the difference is positive:
\* every cleaned value is above 10), and nan stays nan.
Delta(avg_load, baseline) ==
    IF avg_load.k = "nan" THEN nan
    ELSE IF baseline = 0 THEN inf
    ELSE Frac((avg_load.num - baseline * avg_load.den) * 100, baseline * avg_load.den)

ExertionReportTwoSided(delta, cfg) ==
    [labels |-> IF \/ GreaterThan(delta, cfg.EXERTION_TOLERANCE_PCT, 1)
                   \/ /\ delta.k = "frac"
                      /\ 0 - delta.num > cfg.EXERTION_TOLERANCE_PCT * delta.den
                THEN <<"PEM Risk (" \o FormatFixed(delta, 0) \o "%)">>
                ELSE <<>>,
     line |-> "   Bike Load Variation: " \o FormatFixed(delta, 1) \o "%"]

\* Lines 88-90.
ExertionReport(delta, cfg) ==
    [labels |-> IF GreaterThan(delta, cfg.EXERTION_TOLERANCE_PCT, 1)
                THEN <<"PEM Risk (" \o FormatFixed(delta, 0) \o "%)">>
                ELSE <<>>,
     line |-> "   Bike Load Variation: " \o FormatFixed(delta, 1) \o "%"]

\* Lines 85-92.
Exertion(df_bike, cfg) ==
    IF ~df_bike.ok
    THEN [labels |-> <<>>, line |-> "   Warning: Bike file not found or invalid format"]
    ELSE ExertionReport(Delta(mean(Values(df_bike, 2)), cfg.BASELINE_WORKLOAD), cfg)

\* Lines 100-102.
StabilityReport(max_std, cfg) ==
    [labels |-> IF GreaterThan(max_std, cfg.STABILITY_THRESHOLD_SD, 1)
                THEN <<"Neuro Risk (" \o FormatFixed(max_std, 0) \o ")">>
                ELSE <<>>,
     line |-> "   Static Stability (SD): " \o FormatFixed(max_std, 1)]

\* Lines 96-106.
Stability(df_static, cfg) ==
    IF ~df_static.ok
    THEN [labels |-> <<>>, line |-> "   Warning: Static file not found or invalid format"]
    ELSE IF ~(df_static.ncols > 4)
    THEN [labels |-> <<>>, line |-> "   Warning: Static data missing Y-axis column"]
    ELSE StabilityReport(max(std(Values(df_static, 3)),
                             std(Values(Coerce(df_static, 4), 4))), cfg)

CombineBikeFirst(speak, bike, static) ==
    [labels |-> bike.labels \o speak.labels \o static.labels,
     lines |-> <<speak.line, bike.line, static.line>>]

\* The labels the three evaluations append, in order, and the lines they print.
Combine(speak, bike, static) ==
    [labels |-> speak.labels \o bike.labels \o static.labels,
     lines |-> <<speak.line, bike.line, static.line>>]

AnalyzeRunStopsAtMissing(dir, pid, cfg) ==
    IF ~LoadAndClean(dir, pid, "speak", 2).df.ok
    THEN [labels |-> <<>>,
          lines |-> <<"   Warning: Speak file not found or invalid format">>]
    ELSE Combine(Respiratory(LoadAndClean(dir, pid, "speak", 2).df, cfg),
                 Exertion(LoadAndClean(dir, pid, "bike_level1", 2).df, cfg),
                 Stability(LoadAndClean(dir, pid, "static_level1", 3).df, cfg))

\* Lines 74-106: one analyze() call on a directory.
AnalyzeRun(dir, pid, cfg) ==
    Combine(Respiratory(LoadAndClean(dir, pid, "speak", 2).df, cfg),
            Exertion(LoadAndClean(dir, pid, "bike_level1", 2).df, cfg),
            Stability(LoadAndClean(dir, pid, "static_level1", 3).df, cfg))

Ran(run) ==
    /\ risks' = risks \o run.labels
    /\ out' = run.lines

\* analyze().
Analyze ==
    /\ calls < MaxCalls
    /\ Ran(AnalyzeRun(files, patient_id, config))
    /\ calls' = calls + 1
    /\ op' = [name |-> "analyze", keyword |-> "", col_index |-> 0]
    /\ UNCHANGED <<patient_id, config, files, verdict, latest_file, clean_df>>

\* "; ".join(labels).
RECURSIVE Join(_)
Join(labels) ==
    IF labels = <<>> THEN ""
    ELSE IF Len(labels) = 1 THEN labels[1]
    ELSE labels[1] \o "; " \o Join(Tail(labels))

\* Lines 108-112.
get_result(labels) ==
    IF labels = <<>> THEN "PASS (Healthy Data)"
    ELSE "FAIL (" \o Join(labels) \o ")"

GetResultClears ==
    /\ verdict' = get_result(risks)
    /\ risks' = <<>>
    /\ op' = [name |-> "get_result", keyword |-> "", col_index |-> 0]
    /\ UNCHANGED <<patient_id, config, files, out, calls, latest_file, clean_df>>

\* get_result().
GetResult ==
    /\ verdict' = get_result(risks)
    /\ op' = [name |-> "get_result", keyword |-> "", col_index |-> 0]
    /\ UNCHANGED <<patient_id, config, files, risks, out, calls, latest_file, clean_df>>

(***************************************************************************)
(* Operations on the loader alone.                                         *)
(***************************************************************************)
\* A call _load_and_clean(kw, c) on the agent.
Loaded(r, kw, c) ==
    /\ latest_file' = r.file
    /\ clean_df' = r.df
    /\ op' = [name |-> "load", keyword |-> kw, col_index |-> c]
    /\ UNCHANGED <<patient_id, config, files, risks, out, verdict, calls>>

CallLoadAndClean(kw, c) == Loaded(LoadAndClean(files, patient_id, kw, c), kw, c)

\* The clean step (lines 62-64) applied once more, to the table the latest call
\* returned, on the same column.
Reclean ==
    /\ op.name \in {"load", "reclean"}
    /\ clean_df.ok
    /\ clean_df' = CleanStep(clean_df, op.col_index)
    /\ op' = [op EXCEPT !.name = "reclean"]
    /\ UNCHANGED <<patient_id, config, files, risks, out, verdict, calls, latest_file>>

\* The agent right after __init__ (lines 34-38), given its directory.
Constructed(pid, cfg, dir) ==
    /\ patient_id = pid
    /\ config = cfg
    /\ files = dir
    /\ risks = <<>>
    /\ out = <<>>
    /\ verdict = ""
    /\ calls = 0
    /\ op = [name |-> "init", keyword |-> "", col_index |-> 0]
    /\ latest_file = ""
    /\ clean_df = None

(***************************************************************************)
(* Specification of the locator: directories of up to MaxFiles files,      *)
(* every file with the same small content.                                 *)
(***************************************************************************)
LocatorNames ==
    {"123_speak.csv", "s123_speak_2.csv", "speak_123.csv", "speak_a.csv",
     "speak_b.csv", "bike_level1.csv", ".123_speak.csv", "123_speak.txt"}

SampleCsv == CsvFile(5, <<<<"1", "t", "50", "50", "50">>>>)

LocatorFiles == [name : LocatorNames, mtime : 1..MaxMtime, content : {SampleCsv}]

Directories(fileSet, n) ==
    {d \in UNION {[1..m -> fileSet] : m \in 0..n} :
        \A i, j \in 1..Len(d) : i # j => d[i].name # d[j].name}

InitLocator ==
    \E dir \in Directories(LocatorFiles, MaxFiles) : Constructed("123", RiskConfig, dir)

NextLocator == \E k \in 1..3 : CallLoadAndClean(Sources[k].keyword, Sources[k].col_index)

SpecLocator == InitLocator /\ [][NextLocator]_vars

(***************************************************************************)
(* Specification of the cleaner: one file, of 1 to 5 columns; one column   *)
(* takes every text of CleanerTexts in every row, column 0 counts the      *)
(* rows (1, 2, ...), the other columns hold 10*j + i in row i of column j. *)
(***************************************************************************)
CleanerTexts == {"5", "10", "11", "200", "-200", "abc", ""}

Filler(i, j) == IF j = 0 THEN ToString(i) ELSE ToString(10 * j + i)

\* The CSV files of w columns and 1..n rows whose column c (0-based) is any
\* sequence over texts.
CsvFiles(w, c, texts, n) ==
    {CsvFile(w, [i \in 1..Len(col) |->
                    [j \in 1..w |-> IF j = c + 1 THEN col[i] ELSE Filler(i, j - 1)]]) :
        col \in UNION {[1..m -> texts] : m \in 1..n}}

CleanerContents ==
    {Unparseable} \cup
    UNION {CsvFiles(w, c, CleanerTexts, MaxRows) : w \in 1..5, c \in 0..4}

InitCleaner ==
    \E content \in CleanerContents :
        Constructed("123", RiskConfig,
                    <<[name |-> "123_speak.csv", mtime |-> 1, content |-> content]>>)

NextCleaner ==
    \/ \E c \in 0..4 : CallLoadAndClean("speak", c)
    \/ Reclean

SpecCleaner == InitCleaner /\ [][NextCleaner]_vars

(***************************************************************************)
(* Specification of the agent: a directory holding at most one file per    *)
(* source, each file absent, unparseable, too narrow for its column, a     *)
(* generated file of 1..MaxRows rows, or one of the fixed files below.     *)
(***************************************************************************)
\* A file of w columns whose column 2 (w = 3) or columns 3 and 4 (w = 5) are given.
Rows3(col) == [i \in 1..Len(col) |-> <<ToString(i), "t", col[i]>>]

Rows5(pairs) == [i \in 1..Len(pairs) |-> <<ToString(i), "t", "0", pairs[i][1], pairs[i][2]>>]

SeqsUpTo(S, n) == UNION {[1..m -> S] : m \in 1..n}

\* Ten rows, column 2 = 5,5,5,5,5,200,200,200,200,200.
SpeakExample == CsvFile(3, Rows3(<<"5", "5", "5", "5", "5", "200", "200", "200", "200", "200">>))

\* Ten rows, column 2 = 50,50,50,50,50,200,200,200,200,200.
SpeakQuietExample ==
    CsvFile(3, Rows3(<<"50", "50", "50", "50", "50", "200", "200", "200", "200", "200">>))

Narrow == CsvFile(2, <<<<"1", "t">>>>)

Absent == [ok |-> FALSE, ncols |-> -1, rows |-> <<>>]

SpeakContents ==
    {Absent, Unparseable, Narrow, SpeakExample, SpeakQuietExample, CsvFile(3, Rows3(<<"5">>))}
    \cup {CsvFile(3, Rows3(col)) : col \in SeqsUpTo({"50", "200"}, MaxRows)}

BikeContents ==
    {Absent, Unparseable, Narrow, CsvFile(3, Rows3(<<"5">>))}
    \cup {CsvFile(3, Rows3(col)) : col \in SeqsUpTo({"50", "2200"}, MaxRows)}

StaticContents ==
    {Absent, Unparseable, Narrow,
     CsvFile(4, <<<<"1", "t", "0", "50">>, <<"2", "t", "0", "500">>>>),
     CsvFile(5, Rows5(<<<<"5", "50">>>>)),
     CsvFile(5, Rows5(<<<<"50", "abc">>, <<"500", "">>>>)),
     CsvFile(5, Rows5(<<<<"50", "50">>, <<"500", "50">>>>))}
    \cup {CsvFile(5, Rows5(pairs)) :
            pairs \in SeqsUpTo({<<"50", "50">>, <<"50", "500">>}, MaxRows)}

\* The directory holding the given content (or nothing) for each source.
AgentDir(speak, bike, static) ==
    SelectSeq(<<[name |-> "123_speak.csv", mtime |-> 1, content |-> speak],
                [name |-> "123_bike_level1.csv", mtime |-> 1, content |-> bike],
                [name |-> "123_static_level1.csv", mtime |-> 1, content |-> static]>>,
              LAMBDA f : f.content # Absent)

Init ==
    \E speak \in SpeakContents, bike \in BikeContents, static \in StaticContents :
        Constructed("123", RiskConfig, AgentDir(speak, bike, static))

Next == Analyze \/ GetResult

Spec == Init /\ [][Next]_vars

(***************************************************************************)
(* Specification of the exertion metric: every configuration of            *)
(* ExertionConfigs, a directory holding the bike file alone.               *)
(***************************************************************************)
ExertionConfigs ==
    {[RiskConfig EXCEPT !.BASELINE_WORKLOAD = b, !.EXERTION_TOLERANCE_PCT = t] :
        b \in {1400, 100, 0, -100}, t \in {50, 0, -60, -200}}

ExertionContents ==
    {Unparseable, Narrow}
    \cup {CsvFile(3, Rows3(col)) : col \in SeqsUpTo({"5", "50", "200", "2200"}, MaxRows)}

InitExertion ==
    \E cfg \in ExertionConfigs, bike \in ExertionContents :
        Constructed("123", cfg, AgentDir(Absent, bike, Absent))

SpecExertion == InitExertion /\ [][Next]_vars

(***************************************************************************)
(* What the properties below read off a state.                             *)
(***************************************************************************)
IsPrefix(a, b) == Len(a) <= Len(b) /\ SubSeq(b, 1, Len(a)) = a

RiskKinds == <<"Respiratory Risk (", "PEM Risk (", "Neuro Risk (">>

\* The metric (1, 2, 3) a label belongs to, 0 for a label of none.
Kind(label) ==
    IF StartsWith(label, RiskKinds[1]) THEN 1
    ELSE IF StartsWith(label, RiskKinds[2]) THEN 2
    ELSE IF StartsWith(label, RiskKinds[3]) THEN 3
    ELSE 0

LabelsOf(labels, k) == SelectSeq(labels, LAMBDA l : Kind(l) = k)

LabelsNotOf(labels, k) == SelectSeq(labels, LAMBDA l : Kind(l) # k)

IsWarning(line) == StartsWith(line, "   Warning:")

\* The first analyze() call of a fresh agent has just returned.
FirstAnalyzeDone == op.name = "analyze" /\ calls = 1

\* The file the locator selects among fs, and whether it selects none.
Latest(fs) == fs[mtimeMax(fs)]

Selected(kw) == Latest(GlobFiles(files, patient_id, kw))

Missing(kw) == GlobFiles(files, patient_id, kw) = <<>>

\* The rows (by number) of a CSV file whose column c (0-based) is a number above 10.
IsKept(cell) == cell.k = "num" /\ cell.v > 10

KeptRows(content, c) ==
    {i \in 1..Len(content.rows) : IsKept(ParseText(content.rows[i][c + 1]))}

ValueAt(content, i, c) == ParseText(content.rows[i][c + 1]).v

RECURSIVE SumOver(_, _, _)
SumOver(content, c, rowSet) ==
    IF rowSet = {} THEN 0
    ELSE LET i == CHOOSE x \in rowSet : TRUE
         IN  ValueAt(content, i, c) + SumOver(content, c, rowSet \ {i})

(***************************************************************************)
(* C1.  After analyze() has run on a freshly constructed agent,            *)
(* get_result() returns "PASS (Healthy Data)" if and only if the risk list *)
(* is empty; otherwise it returns "FAIL (" + the labels joined by "; " +   *)
(* ")", and the labels are in the order Respiratory, PEM, Neuro.           *)
(***************************************************************************)
C1_Verdict ==
    (op.name = "get_result" /\ calls = 1) =>
        /\ (verdict = "PASS (Healthy Data)") <=> (risks = <<>>)
        /\ Len(risks) <= 3
        /\ Len(risks) = 1 => verdict = "FAIL (" \o risks[1] \o ")"
        /\ Len(risks) = 2 => verdict = "FAIL (" \o risks[1] \o "; " \o risks[2] \o ")"
        /\ Len(risks) = 3 =>
              verdict = "FAIL (" \o risks[1] \o "; " \o risks[2] \o "; " \o risks[3] \o ")"
        /\ \A i \in 1..Len(risks) : Kind(risks[i]) # 0
        /\ \A i, j \in 1..Len(risks) : i < j => Kind(risks[i]) < Kind(risks[j])

C1_Witness ==
    /\ op.name = "get_result"
    /\ calls = 1
    /\ Len(risks) = 3
    /\ Contains(verdict, "; PEM Risk (")

(***************************************************************************)
(* C10.  As claimed: the risk list starts empty, is only ever appended to, *)
(* get_result() leaves the list, the configuration and the patient         *)
(* identity unchanged, and once get_result() has read the verdict the list *)
(* is never modified again.                                                *)
(***************************************************************************)
C10_NeverModifiedAfterRead ==
    /\ risks = <<>>
    /\ [][/\ IsPrefix(risks, risks')
          /\ op'.name = "get_result" => UNCHANGED <<risks, config, patient_id>>
          /\ verdict # "" => risks' = risks]_vars

(***************************************************************************)
(* C10, amended.  The risk list starts empty, is only ever appended to,    *)
(* and get_result() leaves the list, the configuration and the patient     *)
(* identity unchanged; after the verdict has been read the list is changed *)
(* by nothing but a later analyze() call, which appends to it.             *)
(***************************************************************************)
C10_AppendOnly ==
    /\ risks = <<>>
    /\ [][/\ IsPrefix(risks, risks')
          /\ op'.name = "get_result" => UNCHANGED <<risks, config, patient_id>>
          /\ (verdict # "" /\ risks' # risks) => op'.name = "analyze"
          /\ UNCHANGED <<config, patient_id>>]_vars

C10_Witness ==
    /\ StartsWith(verdict, "FAIL (")
    /\ op.name = "analyze"
    /\ calls = 2
    /\ Len(risks) = 6

Malformed(content, k) ==
    \/ ~content.ok
    \/ content.ncols < Sources[k].col_index + 1
    \/ k = 3 /\ content.ncols < 5

FailingAmong(fs, k) == fs = <<>> \/ Malformed(Latest(fs).content, k)

Failing(k) == FailingAmong(GlobFiles(files, patient_id, Sources[k].keyword), k)

\* A valid file for source k, one that raises the metric's risk.
ValidContent(k) ==
    IF k = 1 THEN CsvFile(3, Rows3(<<"50", "200">>))
    ELSE IF k = 2 THEN CsvFile(3, Rows3(<<"2200">>))
    ELSE CsvFile(5, Rows5(<<<<"50", "50">>, <<"500", "50">>>>))

\* The directory with the files of source k replaced by one valid file.
WithValid(dir, k) ==
    SelectSeq(dir, LAMBDA f : ~GlobKeyword(f.name, Sources[k].keyword))
    \o <<[name |-> "123_" \o Sources[k].keyword \o ".csv", mtime |-> 1,
          content |-> ValidContent(k)]>>

\* labels: what analyze() appends for the directory with source k made valid.
IsolatedFrom(k, labels) ==
    /\ Len(out) = 3
    /\ IsWarning(out[k])
    /\ LabelsOf(risks, k) = <<>>
    /\ LabelsNotOf(risks, k) = LabelsNotOf(labels, k)
    /\ LabelsOf(labels, k) # <<>>

(***************************************************************************)
(* C8.  Each source on its own: when one source is missing, malformed      *)
(* (unparseable, or too narrow for its column) or, for the static source,  *)
(* without a fifth column, the first analyze() call returns having printed *)
(* its three lines, appends no label for that metric, and appends for the  *)
(* other two metrics the labels it appends when that source is valid.      *)
(***************************************************************************)
C8_Isolation ==
    FirstAnalyzeDone =>
        \A k \in 1..3 :
            Failing(k) =>
                IsolatedFrom(k, AnalyzeRun(WithValid(files, k), patient_id, config).labels)

C8_Witness ==
    /\ FirstAnalyzeDone
    /\ Failing(1)
    /\ ~Failing(2)
    /\ ~Missing("static_level1")
    /\ Selected("static_level1").content.ok
    /\ Selected("static_level1").content.ncols = 4
    /\ Len(risks) = 1
    /\ Kind(risks[1]) = 2

EmptyCleanedAmong(fs, k) ==
    /\ ~FailingAmong(fs, k)
    /\ KeptRows(Latest(fs).content, Sources[k].col_index) = {}

EmptyCleaned(k) == EmptyCleanedAmong(GlobFiles(files, patient_id, Sources[k].keyword), k)

(***************************************************************************)
(* C7.  As claimed: when a source's file loads but no row survives         *)
(* cleaning, the metric is skipped as in the source-missing case (a        *)
(* warning is printed, no metric value is) and no label is appended.       *)
(***************************************************************************)
C7_EmptySkipped ==
    FirstAnalyzeDone =>
        \A k \in 1..3 :
            EmptyCleaned(k) => (IsWarning(out[k]) /\ LabelsOf(risks, k) = <<>>)

Pauses(content, kept, threshold) ==
    {i \in kept : Abs(ValueAt(content, i, 2)) < threshold}

ExceedsLimit(pauses, kept, limit) ==
    /\ kept # {}
    /\ Cardinality(pauses) * limit.den > limit.num * Cardinality(kept)

\* pause_ratio > SILENCE_RATIO_LIMIT on the rows kept of a speak file.
PauseRatioExceeds(content, kept) ==
    ExceedsLimit(Pauses(content, kept, config.SILENCE_THRESHOLD), kept,
                 config.SILENCE_RATIO_LIMIT)

SpecExampleHolds(content, labels) ==
    /\ (labels # <<>>) <=> PauseRatioExceeds(content, KeptRows(content, 2))
    /\ content = SpeakExample => (Len(labels) = 1 /\ Contains(labels[1], "50.0%"))

(***************************************************************************)
(* C6.  As claimed: a Respiratory Risk label is appended exactly when      *)
(* pause_ratio > SILENCE_RATIO_LIMIT, and the 10-row speak table whose     *)
(* column 2 is 5,5,5,5,5,200,200,200,200,200, analysed with                *)
(* SILENCE_THRESHOLD = 100 and SILENCE_RATIO_LIMIT = 0.3, yields a         *)
(* Respiratory Risk label containing "50.0%".                              *)
(***************************************************************************)
C6_SpecExample ==
    (FirstAnalyzeDone /\ ~Failing(1)) =>
        SpecExampleHolds(Selected("speak").content, LabelsOf(risks, 1))

CleanedRatioHolds(content, labels) ==
    /\ (labels # <<>>) <=> PauseRatioExceeds(content, KeptRows(content, 2))
    /\ content = SpeakExample =>
          (labels = <<>> /\ out[1] = "   Speak Pause Ratio: 0.0%")
    /\ content = SpeakQuietExample =>
          (labels = <<"Respiratory Risk (50.0%)">> /\ out[1] = "   Speak Pause Ratio: 50.0%")

(***************************************************************************)
(* C6, amended.  pause_ratio is taken over the cleaned speak table: the    *)
(* rows whose column 2 is a number above 10, of which those with           *)
(* |value| < SILENCE_THRESHOLD are counted; a Respiratory Risk label is    *)
(* appended exactly when that table has a row and pause_ratio >            *)
(* SILENCE_RATIO_LIMIT.  The table 5,5,5,5,5,200,200,200,200,200 is        *)
(* cleaned to its five 200 rows: ratio 0.0%, no label.  The table          *)
(* 50,50,50,50,50,200,200,200,200,200 yields "Respiratory Risk (50.0%)".   *)
(***************************************************************************)
C6_CleanedRatio ==
    (FirstAnalyzeDone /\ ~Failing(1)) =>
        CleanedRatioHolds(Selected("speak").content, LabelsOf(risks, 1))

C6_Witness ==
    /\ FirstAnalyzeDone
    /\ ~Missing("speak")
    /\ Selected("speak").content = SpeakExample
    /\ out[1] = "   Speak Pause Ratio: 0.0%"

\* (mean - BASELINE) / BASELINE * 100 > EXERTION_TOLERANCE_PCT for the mean
\* total/n, multiplied out; a division of the positive difference by a zero
\* baseline gives +inf.
DeltaExceeds(total, n, b, t) ==
    /\ n > 0
    /\ \/ b = 0
       \/ b > 0 /\ (total - n * b) * 100 > t * n * b
       \/ b < 0 /\ (total - n * b) * 100 < t * n * b

MeanAbove(total, n, b) == n > 0 /\ total > b * n

EveryConfigHolds(labelled, total, n) ==
    /\ labelled <=> DeltaExceeds(total, n, config.BASELINE_WORKLOAD,
                                 config.EXERTION_TOLERANCE_PCT)
    /\ labelled => MeanAbove(total, n, config.BASELINE_WORKLOAD)

BikeTotal(content) == SumOver(content, 2, KeptRows(content, 2))

BikeCount(content) == Cardinality(KeptRows(content, 2))

(***************************************************************************)
(* C9.  As claimed, for every configuration: a PEM Risk label is appended  *)
(* exactly when delta_pct > EXERTION_TOLERANCE_PCT, and only when the mean *)
(* of column 2 is strictly above BASELINE_WORKLOAD.                        *)
(***************************************************************************)
C9_OneSidedEveryConfig ==
    (FirstAnalyzeDone /\ ~Failing(2)) =>
        EveryConfigHolds(LabelsOf(risks, 2) # <<>>,
                         BikeTotal(Selected("bike_level1").content),
                         BikeCount(Selected("bike_level1").content))

OneSidedHolds(labelled, total, n) ==
    /\ labelled <=> DeltaExceeds(total, n, config.BASELINE_WORKLOAD,
                                 config.EXERTION_TOLERANCE_PCT)
    /\ (config.EXERTION_TOLERANCE_PCT >= 0 /\ labelled)
          => MeanAbove(total, n, config.BASELINE_WORKLOAD)

(***************************************************************************)
(* C9, amended.  For every configuration a PEM Risk label is appended      *)
(* exactly when delta_pct > EXERTION_TOLERANCE_PCT; for every              *)
(* configuration with EXERTION_TOLERANCE_PCT >= 0 it is appended only when *)
(* the mean of column 2 is strictly above BASELINE_WORKLOAD.               *)
(***************************************************************************)
C9_OneSided ==
    (FirstAnalyzeDone /\ ~Failing(2)) =>
        OneSidedHolds(LabelsOf(risks, 2) # <<>>,
                      BikeTotal(Selected("bike_level1").content),
                      BikeCount(Selected("bike_level1").content))

C9_Witness ==
    /\ FirstAnalyzeDone
    /\ config.EXERTION_TOLERANCE_PCT = 50
    /\ config.BASELINE_WORKLOAD = 1400
    /\ risks = <<"PEM Risk (57%)">>

PatientSpecific(name, kw) ==
    EndsWith(name, ".csv") /\ Contains(name, patient_id) /\ Contains(name, kw)

KeywordOnly(name, kw) ==
    EndsWith(name, ".csv") /\ ~Contains(name, patient_id) /\ Contains(name, kw)

(***************************************************************************)
(* C2.  As claimed: in a directory holding a patient-specific file (a .csv *)
(* name containing both patient_id and the keyword, anywhere) and a        *)
(* keyword-only file, the locator selects a patient-specific file.         *)
(***************************************************************************)
C2_PatientSpecificPreferred ==
    op.name = "load" =>
        ((/\ \E i \in 1..Len(files) : PatientSpecific(files[i].name, op.keyword)
          /\ \E i \in 1..Len(files) : KeywordOnly(files[i].name, op.keyword))
            => PatientSpecific(latest_file, op.keyword))

InUse(kw) ==
    IF \E i \in 1..Len(files) : GlobSpecific(files[i].name, patient_id, kw)
    THEN {i \in 1..Len(files) : GlobSpecific(files[i].name, patient_id, kw)}
    ELSE {i \in 1..Len(files) : GlobKeyword(files[i].name, kw)}

(***************************************************************************)
(* C3.  When files match the pattern in use (the patient-specific pattern, *)
(* or the keyword-only pattern when no file matches the first), the file   *)
(* selected is one of them and none of them is more recently modified;     *)
(* when no file matches either pattern the locator returns None.           *)
(***************************************************************************)
C3_MostRecent ==
    op.name = "load" =>
        IF InUse(op.keyword) = {}
        THEN latest_file = "" /\ clean_df = None
        ELSE \E i \in InUse(op.keyword) :
                /\ files[i].name = latest_file
                /\ \A j \in InUse(op.keyword) : files[j].mtime <= files[i].mtime

C3_Witness ==
    /\ op.name = "load"
    /\ Cardinality(InUse(op.keyword)) >= 2
    /\ \E i, j \in InUse(op.keyword) :
          /\ i < j
          /\ files[i].mtime < files[j].mtime
          /\ files[j].name = latest_file

RawTable == read_csv(files[1].content)

(***************************************************************************)
(* C4.  For a file that parses and a column within its width, the table    *)
(* _load_and_clean returns holds exactly the rows whose cell in that       *)
(* column is a number strictly greater than 10, in the original order,     *)
(* each with that cell as the number and its other cells as read.          *)
(***************************************************************************)
C4_CleanTable ==
    (/\ op.name = "load"
     /\ latest_file # ""
     /\ files[1].content.ok
     /\ op.col_index < files[1].content.ncols) =>
        /\ clean_df.ok
        /\ clean_df.ncols = files[1].content.ncols
        /\ {clean_df.rows[i].idx : i \in 1..Len(clean_df.rows)}
             = KeptRows(files[1].content, op.col_index)
        /\ \A i, j \in 1..Len(clean_df.rows) :
              i < j => clean_df.rows[i].idx < clean_df.rows[j].idx
        /\ \A i \in 1..Len(clean_df.rows) :
              \A c \in 0..(clean_df.ncols - 1) :
                 Cell(clean_df.rows[i], c) =
                    IF c = op.col_index
                    THEN Num(ValueAt(files[1].content, clean_df.rows[i].idx, c))
                    ELSE Cell(RawTable.rows[clean_df.rows[i].idx], c)

C4_Witness ==
    /\ op.name = "load"
    /\ clean_df.ok
    /\ Len(clean_df.rows) = 1
    /\ clean_df.rows[1].idx = 2
    /\ Cell(clean_df.rows[1], op.col_index) = Num(11)
    /\ files[1].content.rows[1][op.col_index + 1] = "10"

(***************************************************************************)
(* C5.  Cleaning is idempotent: the clean step applied to a table that     *)
(* _load_and_clean returned, on the same column, yields the same table.    *)
(***************************************************************************)
C5_Idempotent == [][op'.name = "reclean" => clean_df' = clean_df]_vars

C5_Witness ==
    /\ op.name = "reclean"
    /\ Len(clean_df.rows) = 1
    /\ Len(files[1].content.rows) = 2
    /\ Cell(clean_df.rows[1], op.col_index) = Num(200)

====
